---------------------------- MODULE Spec2Model ----------------------------
(***************************************************************************)
(* The /summarize request pipeline of src/flask_app/app.py: input routing, *)
(* the three URL extraction strategies, the two keyword search providers,  *)
(* the summariser and the JSON response; and the keyword form of           *)
(* src/streamlit_app/app.py: validation, the request to the backend and    *)
(* the display of its answer.                                              *)
(*                                                                         *)
(* Strings are abstracted to their shape: the number of leading and        *)
(* trailing whitespace characters, the number of characters from the first *)
(* to the last non-whitespace character, and a tag naming the text.        *)
(* str.strip(), len(), truthiness and re.match('^https?://') are computed  *)
(* on that shape.                                                          *)
(***************************************************************************)
EXTENDS Integers, Sequences, FiniteSets, TLC

VARIABLES
    pc,                \* summarize_content (position in the handler) (app.py 393-506)
    request,           \* summarize_content: data = request.get_json() (app.py 418-418)
    selected,          \* summarize_content: branch taken (app.py 427-481)
    url,               \* summarize_content: url (app.py 442-442)
    keyword,           \* summarize_content: keyword (app.py 461-461)
    content_data,      \* summarize_content: content_data (app.py 422-466)
    source_identifier, \* summarize_content: source_identifier (app.py 423-473)
    content_type,      \* summarize_content: content_type (app.py 424-474)
    attempts,          \* calls of extract_with_*, search_* and generate_enhanced_summary, in order (app.py 172-298)
    netcalls,          \* outbound requests: download, fetch_url, session.get, generate_content (app.py 66-366)
    fetched,           \* outcome of each strategy's page fetch (app.py 116-117)
    results,           \* ContentExtractor.extract_content: content of each strategy (app.py 177-189)
    wiki,              \* RAGProcessor.search_wikipedia: Wikipedia's answers (app.py 220-234)
    ddg,               \* RAGProcessor.search_duckduckgo_instant: data (app.py 258-260)
    gemini,            \* RAGProcessor.generate_enhanced_summary: client.models.generate_content (app.py 360-366)
    summary,           \* summarize_content: summary (app.py 484-484)
    response,          \* summarize_content: returned response (app.py 420-506)
    fe_pc,             \* main: position in the script run (streamlit app.py 391-426)
    input_keyword,     \* main: input_keyword = st.text_input(...) (streamlit app.py 360-365)
    api_request,       \* make_api_request: the requests.post call (streamlit app.py 92-104)
    reply,             \* make_api_request: response, or the exception of requests.post (streamlit app.py 96-146)
    api_response,      \* main: api_response = make_api_request(input_keyword) (streamlit app.py 411-411)
    shown              \* what the page shows: st.error, st.warning, st.success, the summary (streamlit app.py 113-177, 368-425)

back == <<pc, request, selected, url, keyword, content_data, source_identifier,
          content_type, attempts, netcalls, fetched, results, wiki, ddg,
          gemini, summary, response>>

front == <<fe_pc, input_keyword, api_request, reply, api_response, shown>>

vars == <<pc, request, selected, url, keyword, content_data, source_identifier,
          content_type, attempts, netcalls, fetched, results, wiki, ddg,
          gemini, summary, response, fe_pc, input_keyword, api_request, reply,
          api_response, shown>>

---------------------------------------------------------------------------
(* Bounds of the model and constants of the program *)

\* largest number of whitespace characters put around a generated string
MaxPad == 1

NewspaperMinLen == 100
TrafilaturaMinLen == 100
SoupMinLen == 50
SummaryMinLen == 100
MaxKeywordLen == 200

---------------------------------------------------------------------------
(* Strings *)

Str(pre, core, post, tag) == [pre |-> pre, core |-> core, post |-> post, tag |-> tag]

\* a string literal of n characters without surrounding whitespace
Lit(tag, n) == Str(0, n, 0, tag)

EmptyStr == Str(0, 0, 0, "")

\* the value of dict.get(key) for a key the dict does not hold (None)
Absent == Str(0, 0, 0, "<absent>")

StrLen(s) == s.pre + s.core + s.post

\* bool(s): None and '' are falsy
Truthy(s) == s # Absent /\ StrLen(s) > 0

\* str.strip(): a string of whitespace only becomes ''
Strip(s) == IF s.core = 0 THEN EmptyStr ELSE Str(0, s.core, 0, s.tag)

\* s padded with p whitespace characters on both sides
Padded(s, p) == Str(p, s.core, p, s.tag)

Pads == {0, MaxPad}

\* dict.get(key, default)
Get(d, key, default) == IF d[key] = Absent THEN default ELSE d[key]

\* f"Title: {title}\nDescription: {description}"
TitleDescription(title, description) ==
    IF description.core > 0
    THEN Str(0, 7 + StrLen(title) + 14 + description.pre + description.core,
             description.post, "Title/Description")
    ELSE Str(0, 7 + StrLen(title) + 13, 1 + StrLen(description), "Title/Description")

---------------------------------------------------------------------------
(* Dictionaries: the keys of a content dict that the pipeline reads *)

Dict(text, title, description, source_url, source_name) ==
    [kind |-> "dict", text |-> text, title |-> title, description |-> description,
     source_url |-> source_url, source_name |-> source_name]

\* {}
EmptyDict == Dict(Absent, Absent, Absent, Absent, Absent)

\* None
None == [kind |-> "none", text |-> Absent, title |-> Absent, description |-> Absent,
         source_url |-> Absent, source_name |-> Absent]

\* a plain str where a dict is expected
StrValue(s) == [kind |-> "str", text |-> s, title |-> Absent, description |-> Absent,
                source_url |-> Absent, source_name |-> Absent]

\* bool(value) of None, a dict or a str
TruthyValue(d) ==
    CASE d.kind = "none" -> FALSE
      [] d.kind = "str" -> Truthy(d.text)
      [] OTHER -> d # EmptyDict

---------------------------------------------------------------------------
(* What the outside world can answer *)

PageTitle == Lit("page title", 10)
PageDescription == Lit("page description", 30)
ErrorPageTitle == Lit("404 Not Found", 13)

\* texts whose stripped length lies around the threshold n
\* (n characters inside whitespace: longer than n before strip(), not after)
TextsAround(tag, n) ==
    {Lit(tag, n + 1)} \cup {Str(p, n, p, tag) : p \in Pads}

\* what newspaper's Article holds after download() and parse()
Articles ==
    [status : {"ok"}, text : TextsAround("article.text", NewspaperMinLen),
     title : {EmptyStr, PageTitle}]
    \cup [status : {"http404"}, text : {EmptyStr}, title : {ErrorPageTitle}]

\* what trafilatura's fetch_url, extract and extract_metadata give
Downloads ==
    [status : {"ok"}, text : TextsAround("trafilatura.text", TrafilaturaMinLen),
     title : {EmptyStr}, description : {EmptyStr, PageDescription}]
    \cup [status : {"ok"}, text : TextsAround("trafilatura.text", TrafilaturaMinLen),
          title : {PageTitle}, description : {EmptyStr}]
    \cup [status : {"http404"}, text : {EmptyStr}, title : {ErrorPageTitle},
          description : {EmptyStr}]

\* what the page holds for BeautifulSoup: the <title> tag, the first element a
\* content selector matches, the <p> elements and the description <meta> tag
\* (Absent where the page has no such tag)
Soups ==
    [status : {"ok"},
     title : {Absent, Padded(PageTitle, MaxPad)},
     selected : {Absent} \cup TextsAround("selector text", SoupMinLen),
     paragraphs : {EmptyStr, Lit("paragraphs", SummaryMinLen)},
     description : {Absent, PageDescription}]
    \cup [status : {"http404"}, title : {ErrorPageTitle}, selected : {Absent},
          paragraphs : {Lit("paragraphs", 20)}, description : {Absent}]
    \cup [status : {"neterr"}, title : {Absent}, selected : {Absent},
          paragraphs : {EmptyStr}, description : {Absent}]

---------------------------------------------------------------------------
(* ContentExtractor *)

\* x or ''
OrEmpty(x) == IF Truthy(x) THEN x ELSE EmptyStr

extract_with_newspaper(u, article) ==
    IF article.status # "ok"
    THEN EmptyDict                       \* download()/parse() raised
    ELSE Dict(OrEmpty(article.text), OrEmpty(article.title), Absent, u, Absent)

extract_with_trafilatura(u, downloaded) ==
    IF downloaded.status # "ok"
    THEN EmptyDict                       \* fetch_url gave nothing, or raised
    ELSE Dict(OrEmpty(downloaded.text), OrEmpty(downloaded.title),
              OrEmpty(downloaded.description), u, Absent)

\* the text BeautifulSoup keeps: the first selector match, else all paragraphs
SoupMainContent(soup) ==
    LET main_content == IF soup.selected # Absent THEN soup.selected ELSE EmptyStr
    IN  IF Truthy(main_content) THEN main_content ELSE soup.paragraphs

extract_with_beautifulsoup_unchecked(u, soup) ==
    IF soup.status = "neterr"
    THEN EmptyDict
    ELSE Dict(SoupMainContent(soup),
              IF soup.title # Absent THEN Strip(soup.title) ELSE EmptyStr,
              IF soup.description # Absent THEN soup.description ELSE EmptyStr,
              u, Absent)

extract_with_beautifulsoup(u, soup) ==
    IF soup.status = "neterr"
    THEN EmptyDict                       \* session.get raised
    ELSE IF soup.status # "ok"
    THEN EmptyDict                       \* raise_for_status raised
    ELSE Dict(SoupMainContent(soup),
              IF soup.title # Absent THEN Strip(soup.title) ELSE EmptyStr,
              IF soup.description # Absent THEN soup.description ELSE EmptyStr,
              u, Absent)

\* content.get('text') and len(content['text'].strip()) > n
Sufficient(content, n) ==
    Truthy(content.text) /\ StrLen(Strip(content.text)) > n

NotAvailable == Lit("N/A", 3)

\* the end of extract_content, after BeautifulSoup's text was too short
TitleDescriptionFallback(content) ==
    IF Truthy(content.title) \/ Truthy(content.description)
    THEN [content EXCEPT !.text =
             TitleDescription(Get(content, "title", NotAvailable),
                              Get(content, "description", NotAvailable))]
    ELSE EmptyDict

---------------------------------------------------------------------------
(* RAGProcessor: keyword search *)

\* the attributes RAGProcessor.__init__ sets on self
RAGProcessorAttrs == {"content_extractor"}

WikiExtract == Lit("wikipedia extract", 500)

\* what Wikipedia would answer to the opensearch query and the extract query
Wikis ==
    {[search |-> "fail", query |-> "none", extract |-> EmptyStr],
     [search |-> "nohit", query |-> "none", extract |-> EmptyStr],
     [search |-> "hit", query |-> "fail", extract |-> EmptyStr],
     [search |-> "hit", query |-> "ok", extract |-> EmptyStr],
     [search |-> "hit", query |-> "ok", extract |-> WikiExtract]}

\* the requests search_wikipedia sends, in order
WikipediaRequests(w) ==
    IF "session" \notin RAGProcessorAttrs
    THEN << >>                           \* self.session raises AttributeError
    ELSE IF w.search = "hit"
    THEN <<"wikipedia opensearch", "wikipedia extracts">>
    ELSE <<"wikipedia opensearch">>

search_wikipedia(kw, w) ==
    IF "session" \notin RAGProcessorAttrs
    THEN None                            \* AttributeError, caught
    ELSE IF w.search = "fail" THEN None
    ELSE IF w.search = "nohit" THEN None
    ELSE IF w.query = "fail" THEN None
    ELSE IF Truthy(w.extract) THEN StrValue(w.extract)
    ELSE None

SourceUrl == Lit("https://source.example/page", 27)
SourceName == Lit("Wikipedia", 9)
DuckDuckGoName == Lit("DuckDuckGo", 10)

\* the JSON of DuckDuckGo's instant answer (related: the number of RelatedTopics)
InstantAnswers ==
    [status : {"ok"},
     Abstract : {EmptyStr, Lit("abstract", 150)},
     Heading : {Absent, Lit("heading", 12)},
     AbstractURL : {EmptyStr, SourceUrl},
     AbstractSource : {Absent, SourceName},
     Definition : {EmptyStr, Lit("definition", 40)},
     DefinitionURL : {SourceUrl},
     DefinitionSource : {Absent},
     related : {0, 2}]
    \cup [status : {"fail"}, Abstract : {EmptyStr}, Heading : {Absent},
          AbstractURL : {EmptyStr}, AbstractSource : {Absent},
          Definition : {EmptyStr}, DefinitionURL : {EmptyStr},
          DefinitionSource : {Absent}, related : {0}]

\* f"Information about {keyword}", f"Definition of {keyword}"
InformationAbout(kw) == Lit("Information about", 18 + StrLen(kw))
DefinitionOf(kw) == Lit("Definition of", 14 + StrLen(kw))

search_duckduckgo_definition_first(kw, data) ==
    IF data.status # "ok" THEN None
    ELSE IF Truthy(data.Definition)
    THEN Dict(Get(data, "Definition", EmptyStr), kw, DefinitionOf(kw),
              Get(data, "DefinitionURL", EmptyStr),
              Get(data, "DefinitionSource", DuckDuckGoName))
    ELSE IF Truthy(data.Abstract)
    THEN Dict(Get(data, "Abstract", EmptyStr), Get(data, "Heading", kw),
              InformationAbout(kw), Get(data, "AbstractURL", EmptyStr),
              Get(data, "AbstractSource", DuckDuckGoName))
    ELSE None

search_duckduckgo_instant(kw, data) ==
    IF data.status # "ok" THEN None      \* the request or its JSON raised
    ELSE IF Truthy(data.Abstract)
    THEN Dict(Get(data, "Abstract", EmptyStr), Get(data, "Heading", kw),
              InformationAbout(kw), Get(data, "AbstractURL", EmptyStr),
              Get(data, "AbstractSource", DuckDuckGoName))
    ELSE IF Truthy(data.Definition)
    THEN Dict(Get(data, "Definition", EmptyStr), kw, DefinitionOf(kw),
              Get(data, "DefinitionURL", EmptyStr),
              Get(data, "DefinitionSource", DuckDuckGoName))
    ELSE None

---------------------------------------------------------------------------
(* RAGProcessor: the summary *)

UnknownSource == Lit("Unknown Source", 14)

HasLittleContentNoStrict(main_text) == StrLen(Strip(main_text)) <= SummaryMinLen

\* len(main_text.strip()) < 100
HasLittleContent(main_text) == StrLen(Strip(main_text)) < SummaryMinLen

GeminiRequestsRetry(use) ==
    IF ~use.called THEN << >>
    ELSE IF use.answer = "ok" THEN <<"gemini">> ELSE <<"gemini", "gemini">>

\* the calls of client.models.generate_content one summary makes
GeminiRequests(use) == IF use.called THEN <<"gemini">> ELSE << >>

\* what the generative model answers: it raises, gives no text, or gives text
\* that may hold a "## Sources" or a "## References" section
\* (detail: str(e) of the exception raised)
ModelAnswers ==
    {[status |-> "raise", text |-> Absent, sources |-> FALSE, references |-> FALSE,
      detail |-> d] : d \in {"429 quota exceeded", "connection reset"}}
    \cup
    {[status |-> "ok", text |-> Absent, sources |-> FALSE, references |-> FALSE,
      detail |-> ""],
     [status |-> "ok", text |-> EmptyStr, sources |-> FALSE, references |-> FALSE,
      detail |-> ""],
     [status |-> "ok", text |-> Str(MaxPad, 0, 0, "model text"),
      sources |-> FALSE, references |-> FALSE, detail |-> ""]}
    \cup {[status |-> "ok", text |-> Padded(Lit("model text", 900), MaxPad),
            sources |-> sr[1], references |-> sr[2], detail |-> ""] :
              sr \in {<<FALSE, FALSE>>, <<TRUE, FALSE>>, <<FALSE, TRUE>>}}

NotCalled == [called |-> FALSE, prompt |-> Absent, answer |-> "none",
              hastext |-> FALSE, error |-> ""]

\* the str generate_enhanced_summary returns: which message it is (kind), the
\* model's text in it, the Sources section appended, the query_hint and the
\* exception text embedded in it
Summary(kind, text, appended, hint, answer) ==
    [kind |-> kind, text |-> text, appended |-> appended, hint |-> hint,
     sources |-> answer.sources, references |-> answer.references,
     detail |-> answer.detail]

NoAnswer == [sources |-> FALSE, references |-> FALSE, detail |-> ""]

\* str(e) of the exception e
Failure(e) == [NoAnswer EXCEPT !.detail = e]

AttributeError == "'str' object has no attribute 'get'"

ExceptionSummaryFixed(query_hint, e) ==
    Summary("exception", Absent, "none", query_hint, NoAnswer)

\* f"**Error**\n\nAn error occurred ... for '{query_hint}': {str(e)}"
ExceptionSummary(query_hint, e) ==
    Summary("exception", Absent, "none", query_hint, Failure(e))

\* f"**Summary Generation Error**\n\nUnable to generate summary for '{query_hint}'..."
EmptyResponseSummary(query_hint) ==
    Summary("generation error", Absent, "none", query_hint, NoAnswer)

NoSummary == Summary("none", Absent, "none", Absent, NoAnswer)

\* main_text after 'Prepare content for AI processing': the text, or the title
\* and description in its place when the text is short
PreparedText(text, title, description) ==
    IF HasLittleContent(text) THEN TitleDescription(title, description) ELSE text

\* the value generate_enhanced_summary returns (summary) and its use of the
\* model (gemini), for the answer the model would give
generate_enhanced_summary(content, query_hint, ctype, answer) ==
    IF content.kind # "dict"
    THEN \* content_data.get raises AttributeError, caught
         [summary |-> ExceptionSummary(query_hint, AttributeError),
          gemini |-> NotCalled]
    ELSE
    LET text == Get(content, "text", EmptyStr)
        title == Get(content, "title", EmptyStr)
        description == Get(content, "description", EmptyStr)
        source_url == Get(content, "source_url", EmptyStr)
        source_name == Get(content, "source_name", UnknownSource)
        little == HasLittleContent(text)
        main_text == PreparedText(text, title, description)
        called == [called |-> TRUE, prompt |-> main_text, answer |-> answer.status,
                   hastext |-> Truthy(answer.text), error |-> answer.detail]
    IN  IF little /\ ~(Truthy(title) \/ Truthy(description))
        THEN [summary |-> Summary("insufficient", Absent, "none", query_hint, NoAnswer),
              gemini |-> NotCalled]
        ELSE IF answer.status = "raise"
        THEN [summary |-> ExceptionSummary(query_hint, answer.detail),
              gemini |-> called]
        ELSE IF ~Truthy(answer.text)
        THEN [summary |-> EmptyResponseSummary(query_hint),
              gemini |-> called]
        ELSE [summary |->
                 Summary("generated", Strip(answer.text),
                         IF Truthy(source_url) /\ ~answer.sources /\ ~answer.references
                         THEN "link"
                         ELSE IF Truthy(source_name) /\ ~Truthy(source_url)
                         THEN "name" ELSE "none",
                         query_hint, answer),
              gemini |-> called]

---------------------------------------------------------------------------
(* The request body *)

\* the value of one key of the JSON object: missing, not a string, or a string
Missing == [present |-> FALSE, isstr |-> FALSE, s |-> Absent]
NonStr == [present |-> TRUE, isstr |-> FALSE, s |-> Absent]
StrField(s) == [present |-> TRUE, isstr |-> TRUE, s |-> s]

UrlLen == 26

ContentFields ==
    {Missing, NonStr} \cup
    {StrField(Str(MaxPad, 0, 0, "user text"))} \cup
    {StrField(Str(p, c, p, "user text")) :
        p \in Pads, c \in {SummaryMinLen - 1, SummaryMinLen}}

UrlFields ==
    {Missing, NonStr, StrField(Str(MaxPad, 0, 0, "")),
     StrField(Lit("ftp://", UrlLen)), StrField(Lit("https://", UrlLen)),
     StrField(Padded(Lit("http://", UrlLen), MaxPad))}

KeywordFields ==
    {Missing, StrField(Str(MaxPad, 0, 0, "")),
     StrField(Padded(Lit("keyword", 3), MaxPad)),
     StrField(Padded(Lit("keyword", MaxKeywordLen), MaxPad)),
     StrField(Lit("keyword", MaxKeywordLen + 1))}

\* the parsed body: get_json() raises ("invalid"); a falsy value (null, {}, []);
\* a number; a non-empty list; a non-empty object
Bodies ==
    [kind : {"invalid", "falsy", "number", "list"},
     content : {Missing}, url : {Missing}, keyword : {Missing}]
    \cup [kind : {"object"}, content : ContentFields, url : UrlFields,
          keyword : KeywordFields]

\* 'k' in data and isinstance(data['k'], str) and data['k'].strip()
Qualifies(field) == field.present /\ field.isstr /\ Truthy(Strip(field.s))

MatchesAnyScheme(u) == u.pre = 0 /\ u.tag \in {"http://", "https://", "ftp://"}

\* re.match(r'^https?://', url)
MatchesHttp(u) == u.pre = 0 /\ u.tag \in {"http://", "https://"}

---------------------------------------------------------------------------
(* Responses *)

Json(code, status, error, sum, source, ctype) ==
    [kind |-> "json", code |-> code, status |-> status, error |-> error,
     summary |-> sum, source |-> source, content_type |-> ctype]

ErrorResponse(code, error) == Json(code, "error", error, NoSummary, Absent, "")

\* an exception on its way out of the try block of summarize_content
Raised == [kind |-> "exception", code |-> 0, status |-> "", error |-> "",
           summary |-> NoSummary, source |-> Absent, content_type |-> ""]

NoResponse == [kind |-> "none", code |-> 0, status |-> "", error |-> "",
               summary |-> NoSummary, source |-> Absent, content_type |-> ""]

HandlerExceptMissing(r) == r

\* except Exception: of summarize_content
HandlerExcept(r) ==
    IF r.kind = "exception" THEN ErrorResponse(500, "Internal server error") ELSE r

DirectContent == Lit("direct content", 14)

SelectInputUrlFirst(data) ==
    IF Qualifies(data.url) THEN "url"
    ELSE IF Qualifies(data.content) THEN "content"
    ELSE IF Qualifies(data.keyword) THEN "keyword"
    ELSE "none"

\* the branch of summarize_content taken for the parsed body
SelectInput(data) ==
    IF Qualifies(data.content) THEN "content"
    ELSE IF Qualifies(data.url) THEN "url"
    ELSE IF Qualifies(data.keyword) THEN "keyword"
    ELSE "none"

SuccessResponseIfGenerated(content, sum, source, ctype) ==
    IF content.kind # "dict"
    THEN Raised
    ELSE IF sum.kind # "generated"
    THEN ErrorResponse(500, "Summary generation failed")
    ELSE Json(200, "success", "", sum, source, ctype)

\* the response after generate_enhanced_summary returned
SuccessResponse(content, sum, source, ctype) ==
    IF content.kind # "dict"
    THEN Raised                          \* content_data.get raises AttributeError
    ELSE Json(200, "success", "", sum, source, ctype)

---------------------------------------------------------------------------
(* The routes of the Flask application *)

\* @app.route("/summarize", methods=['POST']), @app.route("/health", methods=['GET'])
Routes ==
    {[rule |-> "/summarize", methods |-> {"POST"}, endpoint |-> "summarize_content"],
     [rule |-> "/health", methods |-> {"GET"}, endpoint |-> "health_check"]}

\* the view function or error handler Flask calls for a request
Route(method, path) ==
    IF \E r \in Routes : r.rule = path /\ method \in r.methods
    THEN (CHOOSE r \in Routes : r.rule = path /\ method \in r.methods).endpoint
    ELSE IF \E r \in Routes : r.rule = path
    THEN "method_not_allowed"
    ELSE "not_found"

---------------------------------------------------------------------------
(* The Streamlit frontend: validation *)

MIN_KEYWORD_LENGTH == 3
MAX_KEYWORD_LENGTH == 200

\* the texts typed into the keyword field; the tag "?!" names a text without
\* an alphanumeric character
TypedKeywords ==
    {EmptyStr, Str(MaxPad, 0, 0, ""),
     Lit("?!", MIN_KEYWORD_LENGTH - 1), Lit("?!", MIN_KEYWORD_LENGTH),
     Padded(Lit("?!", MAX_KEYWORD_LENGTH), MaxPad)}
    \cup {Str(p, c, p, "keyword") :
            p \in Pads,
            c \in {MIN_KEYWORD_LENGTH - 1, MIN_KEYWORD_LENGTH,
                   MAX_KEYWORD_LENGTH, MAX_KEYWORD_LENGTH + 1}}

\* any(c.isalnum() for c in keyword)
AnyAlnum(kw) == kw.core > 0 /\ kw.tag # "?!"

Validation(is_valid, error_message) ==
    [is_valid |-> is_valid, error_message |-> error_message]

validate_keyword_max_excluded(kw) ==
    IF ~Truthy(kw)
    THEN Validation(FALSE, "Please enter a keyword.")
    ELSE LET stripped == Strip(kw)
         IN  IF StrLen(stripped) < MIN_KEYWORD_LENGTH
             THEN Validation(FALSE, "Please enter a more descriptive keyword")
             ELSE IF StrLen(stripped) >= MAX_KEYWORD_LENGTH
             THEN Validation(FALSE, "Keyword is too long")
             ELSE IF ~AnyAlnum(stripped)
             THEN Validation(FALSE, "Keyword must contain at least one alphanumeric character.")
             ELSE Validation(TRUE, "")

validate_keyword(kw) ==
    IF ~Truthy(kw)
    THEN Validation(FALSE, "Please enter a keyword.")
    ELSE LET stripped == Strip(kw)
         IN  IF StrLen(stripped) < MIN_KEYWORD_LENGTH
             THEN Validation(FALSE, "Please enter a more descriptive keyword")
             ELSE IF StrLen(stripped) > MAX_KEYWORD_LENGTH
             THEN Validation(FALSE, "Keyword is too long")
             ELSE IF ~AnyAlnum(stripped)
             THEN Validation(FALSE, "Keyword must contain at least one alphanumeric character.")
             ELSE Validation(TRUE, "")

---------------------------------------------------------------------------
(* The Streamlit frontend: the request and the replies to it *)

\* requests.post(url=f"{BACKEND_URL}/keyword", json={"keyword": keyword.strip()})
ApiRequest(kw) == [method |-> "POST", path |-> "/keyword", keyword |-> Strip(kw)]

NoRequest == [method |-> "", path |-> "", keyword |-> Absent]

\* a decoded JSON value: an object (the keys the frontend reads, and 'source'),
\* null, or a non-empty array
Data(kind, status, sum, kw, error, source) ==
    [kind |-> kind, status |-> status, summary |-> sum, keyword |-> kw,
     error |-> error, source |-> source]

NoData == Data("none", "", Absent, Absent, "", Absent)
AList == Data("list", "", Absent, Absent, "", Absent)
EmptyObject == Data("dict", "", Absent, Absent, "", Absent)

\* the body of an HTTP response: JSON text, no content, or text that is not
\* JSON (raises: the exception response.json() raises on it)
JsonBody(data) == [content |-> "json", data |-> data, raises |-> ""]
NoContent(exc) == [content |-> "empty", data |-> NoData, raises |-> exc]
NotJson(exc) == [content |-> "invalid", data |-> NoData, raises |-> exc]

\* what requests.post comes back with: a response, or an exception
Reply(outcome, code, body) == [outcome |-> outcome, code |-> code, body |-> body]

NoReply == Reply("none", 0, NoContent(""))

ErrorBody(error) == JsonBody(Data("dict", "error", Absent, Absent, error, Absent))

\* response_data of summarize_content: summary, source, content_type, metadata, status
SuccessBody(sum, source) ==
    JsonBody(Data("dict", "success", sum, Absent, "", source))

ModelText == Lit("model text", 900)

\* the replies summarize_content can give to the body {"keyword": kw}
HandlerReplies(kw) ==
    IF ~Truthy(kw)
    THEN {Reply("response", 400, ErrorBody("Request must contain content, url or keyword"))}
    ELSE IF StrLen(kw) > MaxKeywordLen
    THEN {Reply("response", 400, ErrorBody("Keyword is too long"))}
    ELSE {Reply("response", 200, SuccessBody(ModelText, kw)),
          Reply("response", 404, ErrorBody("Could not find any information")),
          Reply("response", 500, ErrorBody("Internal server error"))}

\* the replies of the Flask application to a request
FlaskReplies(req) ==
    LET endpoint == Route(req.method, req.path)
    IN  CASE endpoint = "summarize_content" -> HandlerReplies(req.keyword)
          [] endpoint = "health_check" ->
               {Reply("response", 200,
                      JsonBody(Data("dict", "healthy", Absent, Absent, "", Absent)))}
          [] endpoint = "method_not_allowed" ->
               {Reply("response", 405, ErrorBody("Method not allowed for this endpoint"))}
          [] OTHER ->
               {Reply("response", 404, ErrorBody("Endpoint not found"))}

\* the exception response.json() raises: requests.exceptions.JSONDecodeError
\* (newer requests) or json.JSONDecodeError
JSONErrors == {"requests.JSONDecodeError", "JSONDecodeError"}

StatusCodes == {200, 400, 404, 500, 503}

\* the JSON values some server at BACKEND_URL answers a request with
ServerData(req) ==
    {NoData, AList, EmptyObject,
     Data("dict", "success", Padded(ModelText, MaxPad), req.keyword, "", Absent),
     Data("dict", "success", Padded(ModelText, MaxPad), Absent, "", req.keyword),
     Data("dict", "success", Str(MaxPad, 0, 0, ""), req.keyword, "", Absent),
     Data("dict", "success", EmptyStr, req.keyword, "", Absent),
     Data("dict", "error", Absent, Absent, "Could not find any information", Absent),
     Data("dict", "error", Absent, Absent, "", Absent),
     Data("dict", "", Absent, Absent, "Bad input", Absent)}

ServerReplies(req) ==
    {Reply("response", code, JsonBody(data)) :
        code \in StatusCodes, data \in ServerData(req)}
    \cup {Reply("response", code, NoContent(exc)) :
            code \in StatusCodes, exc \in JSONErrors}
    \cup {Reply("response", code, NotJson(exc)) :
            code \in StatusCodes, exc \in JSONErrors}
    \cup {Reply(exc, 0, NoContent("")) :
            exc \in {"Timeout", "ConnectionError", "RequestException"}}

---------------------------------------------------------------------------
(* The Streamlit frontend: make_api_request and the display *)

\* the classes an exception is an instance of
Bases(exc) ==
    CASE exc = "Timeout" -> {"Timeout", "RequestException", "Exception"}
      [] exc = "ConnectionError" -> {"ConnectionError", "RequestException", "Exception"}
      [] exc = "RequestException" -> {"RequestException", "Exception"}
      [] exc = "requests.JSONDecodeError" ->
           {"requests.JSONDecodeError", "RequestException", "JSONDecodeError", "Exception"}
      [] exc = "JSONDecodeError" -> {"JSONDecodeError", "Exception"}
      [] OTHER -> {exc, "Exception"}

ApiHandlersWithoutLast ==
    <<"Timeout", "ConnectionError", "RequestException", "JSONDecodeError">>

\* the except clauses of make_api_request, in order
ApiHandlers ==
    <<"Timeout", "ConnectionError", "RequestException", "JSONDecodeError", "Exception">>

\* the first except clause that catches exc ("": none does)
Catches(handlers, exc) ==
    LET hits == {i \in 1..Len(handlers) : handlers[i] \in Bases(exc)}
    IN  IF hits = {} THEN ""
        ELSE handlers[CHOOSE i \in hits : \A j \in hits : i <= j]

\* the st.error call of an except clause
ExceptMessage(handler) ==
    CASE handler = "Timeout" -> "Request timed out. The server might be busy. Please try again."
      [] handler = "ConnectionError" ->
           "Cannot connect to the server. Please check if the backend is running."
      [] handler = "RequestException" -> "Network error occurred. Please check your connection."
      [] handler = "JSONDecodeError" -> "Invalid response format from server."
      [] OTHER -> "An unexpected error occurred. Please try again."

\* st.error(f"{message}{detail}")
StError(message, detail) == [message |-> message, detail |-> detail]

\* how a call ends: the value returned, the st.error calls made, the exception
\* that leaves it ("": none)
Outcome(ret, errors, raised) == [ret |-> ret, errors |-> errors, raised |-> raised]

NoOutcome == Outcome(NoData, << >>, "")

\* dict.get(key, default) for the key 'error'
GetError(d, default) == IF d.error = "" THEN default ELSE d.error

\* the try block of make_api_request, after requests.post
TryApiRequest(r) ==
    IF r.outcome # "response"
    THEN Outcome(NoData, << >>, r.outcome)
    ELSE IF r.code = 200
    THEN IF r.body.content # "json"
         THEN Outcome(NoData, << >>, r.body.raises)
         ELSE Outcome(r.body.data, << >>, "")
    ELSE IF r.code = 400
    THEN IF r.body.content = "empty"
         THEN Outcome(NoData, <<StError("Request error: ", "Bad request")>>, "")
         ELSE IF r.body.content = "invalid"
         THEN Outcome(NoData, << >>, r.body.raises)
         ELSE IF r.body.data.kind # "dict"
         THEN Outcome(NoData, << >>, "AttributeError")
         ELSE Outcome(NoData,
                      <<StError("Request error: ",
                                GetError(r.body.data, "Invalid request"))>>, "")
    ELSE IF r.code = 500
    THEN Outcome(NoData, <<StError("Server error. Please try again later.", "")>>, "")
    ELSE Outcome(NoData, <<StError("Unexpected error (Status)", "")>>, "")

\* make_api_request from the return of requests.post on
make_api_request(r) ==
    LET try == TryApiRequest(r)
        handler == Catches(ApiHandlers, try.raised)
    IN  IF try.raised = "" \/ handler = ""
        THEN try
        ELSE Outcome(NoData, <<StError(ExceptMessage(handler), "")>>, "")

\* what the page shows below the form
Page(view, errors, sum, kw) ==
    [view |-> view, errors |-> errors, summary |-> sum, keyword |-> kw]

Blank == Page("blank", << >>, Absent, Absent)

\* bool(api_response)
TruthyData(d) == d.kind = "list" \/ (d.kind = "dict" /\ d # EmptyObject)

display_summary(summary_data, errors) ==
    LET sum == Strip(Get(summary_data, "summary", EmptyStr))
        kw == Strip(Get(summary_data, "keyword", EmptyStr))
    IN  IF ~Truthy(sum)
        THEN Page("warning", errors, Absent, Absent)
        ELSE Page("summary", errors, sum, kw)

\* the except clause of the entry point: st.error, st.exception(e)
StartupError(errors, exc) ==
    Page("crash", errors \o <<StError("Failed to start the application.", exc)>>,
         Absent, Absent)

\* main after make_api_request ended with outcome o
ShowResponse(o) ==
    IF o.raised # ""
    THEN StartupError(o.errors, o.raised)
    ELSE IF ~TruthyData(o.ret)
    THEN Page(IF o.errors = << >> THEN "blank" ELSE "error", o.errors, Absent, Absent)
    ELSE IF o.ret.kind # "dict"
    THEN StartupError(o.errors, "AttributeError")
    ELSE IF o.ret.status = "success" /\ Truthy(o.ret.summary)
    THEN display_summary(o.ret, o.errors)
    ELSE IF o.ret.status = "error"
    THEN Page("error",
              o.errors \o <<StError("", GetError(o.ret, "Unknown error occurred"))>>,
              Absent, Absent)
    ELSE Page("warning", o.errors, Absent, Absent)

---------------------------------------------------------------------------
(* summarize_content, step by step *)

NoFetch == [newspaper |-> "", trafilatura |-> "", beautifulsoup |-> ""]
NoResults == [newspaper |-> None, trafilatura |-> None, beautifulsoup |-> None]
NoWiki == [search |-> "", query |-> "", extract |-> Absent]
NoInstantAnswer ==
    [status |-> "", Abstract |-> Absent, Heading |-> Absent, AbstractURL |-> Absent,
     AbstractSource |-> Absent, Definition |-> Absent, DefinitionURL |-> Absent,
     DefinitionSource |-> Absent, related |-> 0]

UnstrippedField(field) == field.s

\* data['url'].strip(), data['keyword'].strip()
StrippedField(field) == Strip(field.s)

text_content_cut(s) ==
    Str(IF s.pre > 0 THEN s.pre - 1 ELSE 0,
        s.core - (IF s.pre = 0 THEN 1 ELSE 0) - (IF s.post = 0 THEN 1 ELSE 0),
        IF s.post > 0 THEN s.post - 1 ELSE 0, s.tag)

\* text_content = data['content'].strip()
text_content(s) == Strip(s)

\* the locals of summarize_content as it starts
Locals ==
    [pc |-> "done", selected |-> "none", url |-> Absent, keyword |-> Absent,
     content_data |-> None, source_identifier |-> EmptyStr, content_type |-> "",
     response |-> NoResponse]

\* summarize_content from get_json() to the first call of the RAG processor
Begin(data) ==
    IF data.kind \in {"invalid", "number"}
    THEN \* get_json() raises; 'content' in <number> raises TypeError
         [Locals EXCEPT !.response = HandlerExcept(Raised)]
    ELSE IF data.kind = "falsy"
    THEN [Locals EXCEPT !.response = ErrorResponse(400, "No JSON data provided")]
    ELSE
    LET sel == SelectInput(data)
        u == StrippedField(data.url)
        kw == StrippedField(data.keyword)
    IN  CASE sel = "content" ->
               [Locals EXCEPT !.pc = "summarize", !.selected = sel,
                   !.content_data =
                       Dict(text_content(data.content.s), Lit("Direct Content", 14),
                            Lit("User-provided content", 21), EmptyStr,
                            Lit("Direct Input", 12)),
                   !.source_identifier = DirectContent, !.content_type = "content"]
          [] sel = "url" ->
               IF ~MatchesHttp(u)
               THEN [Locals EXCEPT !.selected = sel, !.url = u,
                        !.response = ErrorResponse(400, "Invalid URL format provided")]
               ELSE [Locals EXCEPT !.pc = "newspaper", !.selected = sel, !.url = u]
          [] sel = "keyword" ->
               IF StrLen(kw) > MaxKeywordLen
               THEN [Locals EXCEPT !.selected = sel, !.keyword = kw,
                        !.response = ErrorResponse(400, "Keyword is too long")]
               ELSE [Locals EXCEPT !.pc = "wikipedia", !.selected = sel, !.keyword = kw]
          [] OTHER ->
               [Locals EXCEPT !.response =
                   ErrorResponse(400, "Request must contain content, url or keyword")]

Init ==
    /\ pc = "idle"
    /\ request = [kind |-> "none", content |-> Missing, url |-> Missing,
                  keyword |-> Missing]
    /\ selected = ""
    /\ url = Absent
    /\ keyword = Absent
    /\ content_data = None
    /\ source_identifier = EmptyStr
    /\ content_type = ""
    /\ attempts = << >>
    /\ netcalls = << >>
    /\ fetched = NoFetch
    /\ results = NoResults
    /\ wiki = NoWiki
    /\ ddg = NoInstantAnswer
    /\ gemini = NotCalled
    /\ summary = NoSummary
    /\ response = NoResponse
    /\ fe_pc = "form"
    /\ input_keyword = EmptyStr
    /\ api_request = NoRequest
    /\ reply = NoReply
    /\ api_response = NoOutcome
    /\ shown = Blank

\* a POST /summarize arrives: summarize_content runs up to its first outbound call
Request(body) ==
    /\ pc = "idle"
    /\ request' = body
    /\ LET b == Begin(body)
       IN  /\ pc' = b.pc
           /\ selected' = b.selected
           /\ url' = b.url
           /\ keyword' = b.keyword
           /\ content_data' = b.content_data
           /\ source_identifier' = b.source_identifier
           /\ content_type' = b.content_type
           /\ response' = b.response
    /\ UNCHANGED <<attempts, netcalls, fetched, results, wiki, ddg, gemini, summary>>
    /\ UNCHANGED front

\* summarize_content after get_content_from_url returned content
AfterExtraction(content) ==
    /\ content_data' = content
    /\ IF ~TruthyValue(content)
       THEN /\ response' = ErrorResponse(400, "Failed to extract content from URL")
            /\ pc' = "done"
            /\ UNCHANGED <<source_identifier, content_type>>
       ELSE /\ source_identifier' = url
            /\ content_type' = "url"
            /\ pc' = "summarize"
            /\ UNCHANGED response

\* one extraction strategy of extract_content ran and returned content
Extracted(strategy, status, content) ==
    /\ attempts' = Append(attempts, strategy)
    /\ netcalls' = Append(netcalls, strategy)
    /\ fetched' = [fetched EXCEPT ![strategy] = status]
    /\ results' = [results EXCEPT ![strategy] = content]
    /\ UNCHANGED <<request, selected, url, keyword, wiki, ddg, gemini, summary>>
    /\ UNCHANGED front

NewspaperAcceptsTypo(content) == Sufficient(content, 10 * NewspaperMinLen)

NewspaperAccepts(content) == Sufficient(content, NewspaperMinLen)
TrafilaturaAccepts(content) == Sufficient(content, TrafilaturaMinLen)
SoupAccepts(content) == Sufficient(content, SoupMinLen)

TryNewspaper(article) ==
    /\ pc = "newspaper"
    /\ LET content == extract_with_newspaper(url, article)
       IN  /\ Extracted("newspaper", article.status, content)
           /\ IF NewspaperAccepts(content)
              THEN AfterExtraction(content)
              ELSE /\ pc' = "trafilatura"
                   /\ UNCHANGED <<content_data, source_identifier, content_type, response>>

TryTrafilaturaRetrying(downloaded) ==
    /\ pc = "trafilatura"
    /\ LET content == extract_with_trafilatura(url, downloaded)
       IN  /\ Extracted("trafilatura", downloaded.status, content)
           /\ IF TrafilaturaAccepts(content)
              THEN AfterExtraction(content)
              ELSE /\ pc' = IF downloaded.status = "ok" THEN "beautifulsoup"
                            ELSE "trafilatura"
                   /\ UNCHANGED <<content_data, source_identifier, content_type, response>>

TryTrafilatura(downloaded) ==
    /\ pc = "trafilatura"
    /\ LET content == extract_with_trafilatura(url, downloaded)
       IN  /\ Extracted("trafilatura", downloaded.status, content)
           /\ IF TrafilaturaAccepts(content)
              THEN AfterExtraction(content)
              ELSE /\ pc' = "beautifulsoup"
                   /\ UNCHANGED <<content_data, source_identifier, content_type, response>>

TryBeautifulSoup(soup) ==
    /\ pc = "beautifulsoup"
    /\ LET content == extract_with_beautifulsoup(url, soup)
       IN  /\ Extracted("beautifulsoup", soup.status, content)
           /\ IF SoupAccepts(content)
              THEN AfterExtraction(content)
              ELSE AfterExtraction(TitleDescriptionFallback(content))

\* summarize_content after get_content_from_keyword returned content
AfterSearch(content) ==
    /\ content_data' = content
    /\ IF ~TruthyValue(content)
       THEN /\ response' = ErrorResponse(404, "Could not find any information")
            /\ pc' = "done"
            /\ UNCHANGED <<source_identifier, content_type>>
       ELSE /\ source_identifier' = keyword
            /\ content_type' = "keyword"
            /\ pc' = "summarize"
            /\ UNCHANGED response

SearchWikipedia(w) ==
    /\ pc = "wikipedia"
    /\ wiki' = w
    /\ attempts' = Append(attempts, "wikipedia")
    /\ netcalls' = netcalls \o WikipediaRequests(w)
    /\ LET content == search_wikipedia(keyword, w)
       IN  IF TruthyValue(content)
           THEN AfterSearch(content)
           ELSE /\ pc' = "duckduckgo"
                /\ UNCHANGED <<content_data, source_identifier, content_type, response>>
    /\ UNCHANGED <<request, selected, url, keyword, fetched, results, ddg, gemini, summary>>
    /\ UNCHANGED front

SearchDuckDuckGo(data) ==
    /\ pc = "duckduckgo"
    /\ ddg' = data
    /\ attempts' = Append(attempts, "duckduckgo")
    /\ netcalls' = Append(netcalls, "duckduckgo")
    /\ AfterSearch(search_duckduckgo_instant(keyword, data))
    /\ UNCHANGED <<request, selected, url, keyword, fetched, results, wiki, gemini, summary>>
    /\ UNCHANGED front

Summarize(answer) ==
    /\ pc = "summarize"
    /\ LET g == generate_enhanced_summary(content_data, source_identifier,
                                           content_type, answer)
       IN  /\ gemini' = g.gemini
           /\ summary' = g.summary
           /\ netcalls' = netcalls \o GeminiRequests(g.gemini)
           /\ response' = HandlerExcept(SuccessResponse(content_data, g.summary,
                                                        source_identifier, content_type))
    /\ attempts' = Append(attempts, "generate_enhanced_summary")
    /\ pc' = "done"
    /\ UNCHANGED <<request, selected, url, keyword, content_data, source_identifier,
                   content_type, fetched, results, wiki, ddg>>
    /\ UNCHANGED front

\* the response is sent; nothing of the request is kept
Respond ==
    /\ pc = "done"
    /\ pc' = "idle"
    /\ request' = [kind |-> "none", content |-> Missing, url |-> Missing,
                   keyword |-> Missing]
    /\ selected' = ""
    /\ url' = Absent
    /\ keyword' = Absent
    /\ content_data' = None
    /\ source_identifier' = EmptyStr
    /\ content_type' = ""
    /\ attempts' = << >>
    /\ netcalls' = << >>
    /\ fetched' = NoFetch
    /\ results' = NoResults
    /\ wiki' = NoWiki
    /\ ddg' = NoInstantAnswer
    /\ gemini' = NotCalled
    /\ summary' = NoSummary
    /\ response' = NoResponse
    /\ UNCHANGED front

Next ==
    \/ \E body \in Bodies : Request(body)
    \/ \E article \in Articles : TryNewspaper(article)
    \/ \E downloaded \in Downloads : TryTrafilatura(downloaded)
    \/ \E soup \in Soups : TryBeautifulSoup(soup)
    \/ \E w \in Wikis : SearchWikipedia(w)
    \/ \E data \in InstantAnswers : SearchDuckDuckGo(data)
    \/ \E answer \in ModelAnswers : Summarize(answer)
    \/ Respond

Spec == Init /\ [][Next]_vars

---------------------------------------------------------------------------
(* The Streamlit frontend: main, step by step *)

\* disabled=not input_keyword or not validate_keyword(input_keyword)[0]
ButtonEnabled == Truthy(input_keyword) /\ validate_keyword(input_keyword).is_valid

\* the user types a keyword: the script runs with the real-time validation
Type(kw) ==
    /\ fe_pc \in {"form", "shown"}
    /\ input_keyword' = kw
    /\ fe_pc' = "form"
    /\ api_request' = NoRequest
    /\ reply' = NoReply
    /\ api_response' = NoOutcome
    /\ shown' = IF ~Truthy(kw) THEN Blank
                ELSE IF validate_keyword(kw).is_valid
                THEN Page("valid", << >>, Absent, Absent)
                ELSE Page("invalid", <<StError(validate_keyword(kw).error_message, "")>>,
                          Absent, Absent)
    /\ UNCHANGED back

\* the user clicks 'Generate Summary': main validates once more and
\* make_api_request posts the keyword
Click ==
    /\ fe_pc = "form"
    /\ ButtonEnabled
    /\ IF ~validate_keyword(input_keyword).is_valid
       THEN /\ fe_pc' = "shown"
            /\ shown' = Page("error",
                             <<StError(validate_keyword(input_keyword).error_message, "")>>,
                             Absent, Absent)
            /\ UNCHANGED api_request
       ELSE /\ fe_pc' = "posting"
            /\ shown' = Page("spinner", << >>, Absent, Absent)
            /\ api_request' = ApiRequest(input_keyword)
    /\ UNCHANGED <<input_keyword, reply, api_response>>
    /\ UNCHANGED back

\* BACKEND_URL is the Flask application of this repository
FlaskAnswers ==
    /\ fe_pc = "posting"
    /\ reply' \in FlaskReplies(api_request)
    /\ fe_pc' = "replied"
    /\ UNCHANGED <<input_keyword, api_request, api_response, shown>>
    /\ UNCHANGED back

\* BACKEND_URL is some other server, or none
ServerAnswers ==
    /\ fe_pc = "posting"
    /\ reply' \in ServerReplies(api_request)
    /\ fe_pc' = "replied"
    /\ UNCHANGED <<input_keyword, api_request, api_response, shown>>
    /\ UNCHANGED back

\* make_api_request handles the reply and main shows the result
Finish ==
    /\ fe_pc = "replied"
    /\ api_response' = make_api_request(reply)
    /\ shown' = ShowResponse(make_api_request(reply))
    /\ fe_pc' = "shown"
    /\ UNCHANGED <<input_keyword, api_request, reply>>
    /\ UNCHANGED back

FrontNext ==
    \/ \E kw \in TypedKeywords : Type(kw)
    \/ Click
    \/ FlaskAnswers
    \/ ServerAnswers
    \/ Finish

FrontSpec == Init /\ [][FrontNext]_vars

---------------------------------------------------------------------------
(* Properties *)

\* a field of the request that holds a string with a non-whitespace character
NonEmptyString(field) == field.present /\ field.isstr /\ field.s.core > 0

ExtractionStrategies == {"newspaper", "trafilatura", "beautifulsoup"}
SearchProviders == {"wikipedia", "duckduckgo"}

Attempted == {attempts[i] : i \in 1..Len(attempts)}

Routed == pc # "idle" /\ request.kind \in {"list", "object"}

\* C1: the input is selected by strict priority content > url > keyword: a
\* non-empty 'content' string is what is summarised and no extraction strategy
\* or search provider runs, whatever 'url' and 'keyword' hold; otherwise a
\* non-empty 'url' string is used and no search provider runs; the keyword is
\* used only when neither of the other two qualifies.
C1_InputPriority ==
    Routed =>
        /\ NonEmptyString(request.content) =>
              /\ selected = "content"
              /\ Attempted \cap (ExtractionStrategies \cup SearchProviders) = {}
              /\ content_data.text.tag = "user text"
              /\ content_data.text.core = request.content.s.core
        /\ ~NonEmptyString(request.content) /\ NonEmptyString(request.url) =>
              /\ selected = "url"
              /\ Attempted \cap SearchProviders = {}
        /\ (selected = "keyword" \/ Attempted \cap SearchProviders # {}) =>
              /\ ~NonEmptyString(request.content)
              /\ ~NonEmptyString(request.url)
              /\ NonEmptyString(request.keyword)

\* a request holding all three inputs was answered from its direct content
C1_Witness ==
    /\ pc = "done"
    /\ NonEmptyString(request.content)
    /\ NonEmptyString(request.url)
    /\ NonEmptyString(request.keyword)
    /\ response.code = 200
    /\ gemini.called

\* the stripped length of the body text handed to generate_enhanced_summary
HandedTextLen == IF content_data.text = Absent THEN 0 ELSE content_data.text.core

Summarized ==
    /\ pc = "done"
    /\ "generate_enhanced_summary" \in Attempted
    /\ content_data.kind = "dict"

HasTitleOrDescription ==
    \/ content_data.title # Absent /\ StrLen(content_data.title) > 0
    \/ content_data.description # Absent /\ StrLen(content_data.description) > 0

\* C2 as stated: whenever the body text handed to the summarizer has a stripped
\* length below 100, the model is not called and the 'insufficient content'
\* message is the summary.
C2_AsStated ==
    Summarized /\ HandedTextLen < SummaryMinLen =>
        ~gemini.called /\ summary.kind = "insufficient"

\* C2 amended: the model call is skipped and the 'insufficient content' message
\* is returned as the summary exactly when the stripped body text is shorter
\* than 100 and the content has neither a title nor a description; with a title
\* or a description the model is called on the text made of the two.
C2_InsufficientContent ==
    Summarized =>
        /\ (summary.kind = "insufficient") <=>
              (HandedTextLen < SummaryMinLen /\ ~HasTitleOrDescription)
        /\ summary.kind = "insufficient" =>
              ~gemini.called /\ response.summary.kind = "insufficient"
        /\ HandedTextLen < SummaryMinLen /\ HasTitleOrDescription =>
              gemini.called /\ gemini.prompt.tag = "Title/Description"

\* a page with 51 characters of text and no title or description was not summarised
C2_Witness ==
    /\ Summarized
    /\ summary.kind = "insufficient"
    /\ HandedTextLen > SoupMinLen
    /\ "gemini" \notin {netcalls[i] : i \in 1..Len(netcalls)}

\* the stripped length of the text a strategy returned ({} has no text)
ReturnedTextLen(strategy) ==
    IF results[strategy].text = Absent THEN 0 ELSE results[strategy].text.core

\* the extraction strategies run in the order newspaper, trafilatura, BeautifulSoup
FixedOrder ==
    \A i \in 1..Len(attempts) :
        /\ attempts[i] = "newspaper" => i = 1
        /\ attempts[i] = "trafilatura" => i = 2 /\ attempts[1] = "newspaper"
        /\ attempts[i] = "beautifulsoup" => i = 3 /\ attempts[2] = "trafilatura"

\* C3 as stated: a later strategy is attempted only if the text of the strategy
\* before it has a length below the threshold.
C3_AsStated ==
    /\ FixedOrder
    /\ "trafilatura" \in Attempted => ReturnedTextLen("newspaper") < NewspaperMinLen
    /\ "beautifulsoup" \in Attempted => ReturnedTextLen("trafilatura") < TrafilaturaMinLen

\* C3 amended: the strategies run in the fixed order newspaper, trafilatura,
\* BeautifulSoup, and a later strategy is attempted only if the stripped text of
\* the strategy before it is not longer than the threshold (100 characters); a
\* strategy whose stripped text is longer than the threshold is never followed
\* by another attempt.
C3_StrategyOrder ==
    /\ FixedOrder
    /\ "trafilatura" \in Attempted => ReturnedTextLen("newspaper") <= NewspaperMinLen
    /\ "beautifulsoup" \in Attempted => ReturnedTextLen("trafilatura") <= TrafilaturaMinLen
    /\ \A i \in 1..Len(attempts), j \in 1..Len(attempts) :
          /\ i < j
          /\ attempts[i] \in {"newspaper", "trafilatura"}
          /\ ReturnedTextLen(attempts[i]) > NewspaperMinLen
          => attempts[j] \notin ExtractionStrategies

\* trafilatura ran after newspaper returned exactly 100 characters inside whitespace
C3_Witness ==
    /\ "beautifulsoup" \in Attempted
    /\ ReturnedTextLen("newspaper") = NewspaperMinLen
    /\ results["newspaper"].text.pre > 0
    /\ ReturnedTextLen("trafilatura") = TrafilaturaMinLen

NotFoundEverywhere == \A s \in ExtractionStrategies : fetched[s] = "http404"

\* C4: for a well-formed http(s) URL whose fetch returns HTTP 404 in every
\* extraction strategy, extract_content returns the empty result and the
\* request is answered with the extraction-failure error object; no exception
\* escapes and the model is not called.
C4_NotFound ==
    pc = "done" /\ NotFoundEverywhere =>
        /\ url.tag \in {"http://", "https://"}
        /\ content_data = EmptyDict
        /\ response.kind = "json"
        /\ response.status = "error"
        /\ response.code = 400
        /\ response.error = "Failed to extract content from URL"
        /\ ~gemini.called
        /\ "generate_enhanced_summary" \notin Attempted

\* a request whose URL answered 404 to all three strategies was answered
C4_Witness ==
    /\ pc = "done"
    /\ NotFoundEverywhere
    /\ Len(netcalls) = 3

HasMetadata(content) ==
    \/ content.title # Absent /\ StrLen(content.title) > 0
    \/ content.description # Absent /\ StrLen(content.description) > 0

\* all three strategies ran and none gave text above its threshold
AllFellShort ==
    /\ pc \in {"summarize", "done"}
    /\ "beautifulsoup" \in Attempted
    /\ ReturnedTextLen("beautifulsoup") <= SoupMinLen

\* C5: when all three strategies fail to yield text above their thresholds but
\* a title or description was obtained by any of them, extract_content returns
\* content whose text is made of that title/description; it returns the empty
\* result only when no strategy produced a title or description.
C5_MetadataFallback ==
    AllFellShort =>
        IF \E s \in ExtractionStrategies : HasMetadata(results[s])
        THEN content_data.kind = "dict" /\ content_data.text.tag = "Title/Description"
        ELSE content_data = EmptyDict

\* C6: for a keyword request Wikipedia is queried first; whenever it yields a
\* non-empty extract, that extract is the content that is summarised, the
\* request ends in a success response and DuckDuckGo is not queried.
C6_WikipediaFirst ==
    pc = "done" /\ selected = "keyword" /\ "wikipedia" \in Attempted =>
        /\ attempts[1] = "wikipedia"
        /\ wiki.search = "hit" /\ wiki.query = "ok" /\ wiki.extract.core > 0 =>
              /\ "duckduckgo" \notin Attempted
              /\ content_data.text = wiki.extract
              /\ response.code = 200
              /\ response.status = "success"

InstantAnswered == "duckduckgo" \in Attempted /\ ddg.status = "ok"

\* C7 as stated: the instant-answer fallback returns the abstract when it is
\* non-empty, else the definition when it is non-empty, else the text of the
\* first two related topics when there are any, and no result only when all
\* three are empty.
C7_AsStated ==
    InstantAnswered =>
        IF ddg.Abstract.core > 0 THEN content_data.text = ddg.Abstract
        ELSE IF ddg.Definition.core > 0 THEN content_data.text = ddg.Definition
        ELSE IF ddg.related > 0 THEN content_data.kind = "dict"
        ELSE content_data = None

\* C7 amended: the instant-answer fallback returns content taken from the
\* 'abstract' field when it is non-empty, else from the 'definition' field when
\* it is non-empty; it returns no result when both are empty, whether or not
\* there are related topics.
C7_InstantAnswer ==
    InstantAnswered =>
        IF ddg.Abstract.core > 0 THEN content_data.text = ddg.Abstract
        ELSE IF ddg.Definition.core > 0 THEN content_data.text = ddg.Definition
        ELSE content_data = None /\ response.code = 404

\* an answer with an abstract and a definition gave the abstract
C7_Witness ==
    /\ InstantAnswered
    /\ ddg.Abstract.core > 0
    /\ ddg.Definition.core > 0
    /\ content_data.text = ddg.Abstract
    /\ pc = "done"

\* C8: for every request body and every outcome of the external calls the
\* handler ends with a JSON response: no step of the pipeline is stuck, and no
\* exception leaves the handler.
C8_AlwaysResponds ==
    /\ pc # "done" => ENABLED Next
    /\ pc = "done" =>
          /\ response.kind = "json"
          /\ response.code \in {200, 400, 404, 500}
          /\ response.status \in {"success", "error"}

\* a body that made the handler raise was answered with the 500 error object
C8_Witness ==
    /\ pc = "done"
    /\ request.kind \in {"invalid", "number"}
    /\ response.kind = "json"
    /\ response.code = 500

\* the place of an outbound call in the chain of one request
Rank(call) ==
    CASE call = "newspaper" -> 1
      [] call = "trafilatura" -> 2
      [] call = "beautifulsoup" -> 3
      [] call = "wikipedia opensearch" -> 1
      [] call = "wikipedia extracts" -> 2
      [] call = "duckduckgo" -> 3
      [] call = "gemini" -> 4

\* C9 as stated: one request makes at most three outbound network calls.
C9_AsStated == Len(netcalls) <= 3

\* C9 amended: one request makes at most four outbound network calls (up to
\* three page fetches or search queries, then the model call), one after
\* another in the order of the fallback chain.
C9_OutboundCalls ==
    /\ Len(netcalls) <= 4
    /\ \A i \in 1..Len(netcalls), j \in 1..Len(netcalls) :
          i < j => Rank(netcalls[i]) < Rank(netcalls[j])

\* three page fetches were followed by the model call
C9_Witness ==
    /\ pc = "done"
    /\ netcalls = <<"newspaper", "trafilatura", "beautifulsoup", "gemini">>

\* the whitespace-free form of a request field, as the response names it
NamedBy(field, source) ==
    /\ source.pre = 0
    /\ source.post = 0
    /\ source.core = field.s.core
    /\ source.tag = field.s.tag

\* C10: every response is either HTTP 200 with summary, source and status
\* 'success', or HTTP 400, 404 or 500 with an error and status 'error'; the
\* source is the stripped URL or keyword used, or 'direct content'.
C10_ResponseShape ==
    pc = "done" =>
        /\ response.kind = "json"
        /\ \/ /\ response.code = 200
              /\ response.status = "success"
              /\ response.error = ""
              /\ response.summary.kind # "none"
              /\ response.summary = summary
              /\ selected = "content" => response.source = DirectContent
              /\ selected = "url" => NamedBy(request.url, response.source)
              /\ selected = "keyword" => NamedBy(request.keyword, response.source)
           \/ /\ response.code \in {400, 404, 500}
              /\ response.status = "error"
              /\ response.error # ""
              /\ response.summary.kind = "none"

\* a URL sent with whitespace around it was summarised and named without it
C10_Witness ==
    /\ pc = "done"
    /\ response.code = 200
    /\ selected = "url"
    /\ request.url.s.pre > 0
    /\ response.source.pre = 0
    /\ response.source.core = UrlLen

\* the model was called and raised
ModelRaised == gemini.called /\ gemini.answer = "raise"

\* the model was called and answered without text
ModelGaveNothing == gemini.called /\ gemini.answer = "ok" /\ ~gemini.hastext

\* C11 as stated: when the model call returns an empty response or raises,
\* generate_enhanced_summary does not raise and returns a fixed string, one
\* that does not depend on the failure itself.
C11_AsStated ==
    pc = "done" /\ (ModelRaised \/ ModelGaveNothing) =>
        /\ response.kind = "json"
        /\ summary.kind \in {"exception", "generation error"}
        /\ summary.detail = ""

\* C11 amended: when the model call returns an empty response,
\* generate_enhanced_summary returns the fixed 'Summary Generation Error'
\* string, which holds only the query hint; when the model call raises, it does
\* not raise either and returns an error string that holds the query hint and
\* the text of the exception.
C11_ModelFailure ==
    pc = "done" =>
        /\ ModelGaveNothing =>
              /\ summary.kind = "generation error"
              /\ summary.detail = ""
              /\ summary.hint = source_identifier
              /\ response.kind = "json"
              /\ response.summary = summary
        /\ ModelRaised =>
              /\ summary.kind = "exception"
              /\ summary.detail = gemini.error
              /\ summary.detail # ""
              /\ summary.hint = source_identifier
              /\ response.kind = "json"
              /\ response.summary = summary

\* the model call raised and the request was answered with the error string
C11_Witness ==
    /\ pc = "done"
    /\ ModelRaised
    /\ summary.detail = "connection reset"
    /\ response.code = 200

\* how many times a call was made in the request under way
Times(calls, call) == Cardinality({i \in 1..Len(calls) : calls[i] = call})

\* the steps of one request and the outbound calls they make
PipelineSteps ==
    ExtractionStrategies \cup SearchProviders \cup {"generate_enhanced_summary"}

OutboundCalls ==
    ExtractionStrategies
        \cup {"wikipedia opensearch", "wikipedia extracts", "duckduckgo", "gemini"}

\* C15: within one request nothing is retried: each extraction strategy, each
\* search provider, each of their queries and the model call is invoked at
\* most once, a step that failed included.
C15_NoRetry ==
    /\ \A i \in 1..Len(attempts) : attempts[i] \in PipelineSteps
    /\ \A i \in 1..Len(netcalls) : netcalls[i] \in OutboundCalls
    /\ \A step \in PipelineSteps : Times(attempts, step) <= 1
    /\ \A call \in OutboundCalls : Times(netcalls, call) <= 1

\* a request whose first two page fetches failed went on to the third strategy
\* and the model, each invoked once
C15_Witness ==
    /\ pc = "done"
    /\ fetched["newspaper"] = "http404"
    /\ fetched["trafilatura"] = "http404"
    /\ attempts = <<"newspaper", "trafilatura", "beautifulsoup",
                    "generate_enhanced_summary">>
    /\ ModelRaised

\* C16: on a non-empty model response a '## Sources' section is appended
\* only if the model output contains neither '## Sources' nor '## References',
\* with a source URL as well as with only a source name.
C16_SourcesOnce ==
    pc = "done" /\ summary.kind = "generated" /\ summary.appended # "none" =>
        ~summary.sources /\ ~summary.references

\* the request was refused for the form of its URL or the length of its keyword
RefusedInput ==
    \/ /\ selected = "url"
       /\ request.url.s.tag \notin {"http://", "https://"}
    \/ /\ selected = "keyword"
       /\ request.keyword.s.core > MaxKeywordLen

\* C17: a request whose selected url does not start with http:// or https://,
\* or whose selected keyword is longer than 200 characters after strip, is
\* answered with HTTP 400 and status 'error' before any outbound call: no
\* extraction strategy, search provider or model call is invoked for it.
C17_RefusedEarly ==
    RefusedInput =>
        /\ pc = "done"
        /\ response.kind = "json"
        /\ response.code = 400
        /\ response.status = "error"
        /\ attempts = << >>
        /\ netcalls = << >>
        /\ ~gemini.called

\* an ftp:// URL was refused
C17_Witness ==
    /\ pc = "done"
    /\ selected = "url"
    /\ request.url.s.tag = "ftp://"
    /\ response.code = 400

\* generate_enhanced_summary returned one of its messages instead of a summary
NoSummaryText == summary.kind \in {"insufficient", "generation error", "exception"}

\* C19 as stated: a response with HTTP 200 and status 'success' is returned
\* only when the model produced a non-empty summary text.
C19_AsStated ==
    pc = "done" /\ response.code = 200 /\ response.status = "success" =>
        /\ gemini.called
        /\ gemini.hastext
        /\ summary.kind = "generated"

\* C19 amended: whenever generate_enhanced_summary returned, the response has
\* HTTP 200 and status 'success' and its summary is the returned string, also
\* when that string is the 'insufficient content' message, the 'Summary
\* Generation Error' message or the error message of a failed model call.
C19_SuccessWhateverSummary ==
    pc = "done" /\ Summarized =>
        /\ response.kind = "json"
        /\ response.code = 200
        /\ response.status = "success"
        /\ response.summary = summary
        /\ summary.kind \in {"generated", "insufficient", "generation error",
                             "exception"}

\* the model call raised and the response is a success that carries the error
\* message as its summary
C19_Witness ==
    /\ pc = "done"
    /\ Summarized
    /\ ModelRaised
    /\ NoSummaryText
    /\ response.code = 200
    /\ response.status = "success"

\* the text of the content, prepared again from a text given in its place
PreparedAgain(text) ==
    PreparedText(text, Get(content_data, "title", EmptyStr),
                 Get(content_data, "description", EmptyStr))

WellFormedKeyword ==
    /\ input_keyword.core >= 3
    /\ input_keyword.core <= 200
    /\ input_keyword.tag # "?!"

\* C13: validate_keyword returns (True, "") exactly for keywords whose
\* stripped length is between 3 and 200 inclusive and that hold at least one
\* alphanumeric character; for every other input it returns False with a
\* non-empty error message.
C13_ValidateKeyword ==
    /\ validate_keyword(input_keyword).is_valid = WellFormedKeyword
    /\ WellFormedKeyword => validate_keyword(input_keyword).error_message = ""
    /\ ~WellFormedKeyword => validate_keyword(input_keyword).error_message # ""
    /\ shown.view = "valid" => WellFormedKeyword
    /\ shown.view = "invalid" =>
          /\ ~WellFormedKeyword
          /\ shown.errors[1].message # ""
    /\ fe_pc # "form" => WellFormedKeyword

\* a keyword of 200 characters typed with whitespace around it was accepted
\* and posted
C13_Witness ==
    /\ fe_pc = "posting"
    /\ input_keyword.core = 200
    /\ input_keyword.pre > 0
    /\ input_keyword.post > 0
    /\ api_request.keyword.core = 200

\* the backend answered with HTTP 200 and a body that is valid JSON
GoodReply ==
    /\ reply.outcome = "response"
    /\ reply.code = 200
    /\ reply.body.content = "json"

SuccessReply ==
    /\ GoodReply
    /\ reply.body.data.kind = "dict"
    /\ reply.body.data.status = "success"
    /\ reply.body.data.summary # Absent
    /\ reply.body.data.summary.core > 0

\* C12: the request the frontend issues for a valid keyword is one the Flask
\* application routes to summarize_content, and when the backend answers with
\* a success response the frontend shows the summary together with the
\* keyword it was generated for.
C12_FrontendReachesBackend ==
    /\ fe_pc \in {"posting", "replied"} =>
          Route(api_request.method, api_request.path) = "summarize_content"
    /\ fe_pc = "shown" /\ SuccessReply =>
          /\ shown.view = "summary"
          /\ shown.summary.core = reply.body.data.summary.core
          /\ shown.keyword = api_request.keyword

=============================================================================
